---- MODULE Spec2Model ----
(***************************************************************************)
(* pages/conf.py of awvwgk/foopss: a Sphinx configuration file.  The file  *)
(* is a module body of seventeen assignment statements.  The host (Sphinx, *)
(* or any caller of exec) runs it once in a namespace it supplies; each    *)
(* statement evaluates its right-hand side in that namespace and stores    *)
(* the result under the target name.                                       *)
(*                                                                         *)
(* The statements are kept as syntax trees (the node names are those of    *)
(* Python's ast module) and evaluated by Eval, so that the order of the    *)
(* statements, the names they read and the values they build are all       *)
(* decided by the model of the file and not by the properties.             *)
(***************************************************************************)
EXTENDS Naturals, Sequences, FiniteSets, TLC

VARIABLES
    host,    \* the namespace as the host supplied it, before the run
    ns,      \* the namespace the file is executed in: name -> Python value
    pc,      \* index in conf of the next statement to execute
    exc,     \* "" while no exception was raised, else the exception's type
    stores   \* the names stored so far by the file, in order of execution

vars == <<host, ns, pc, exc, stores>>

\* Largest number of names the host binds in the namespace before the run.
MaxHostNames == 2

(***************************************************************************)
(* Python values, tagged with their type.                                  *)
(***************************************************************************)
PyStr(s)  == [type |-> "str",  val |-> s]
PyBool(b) == [type |-> "bool", val |-> b]
PyInt(n)  == [type |-> "int",  val |-> n]
PyList(q) == [type |-> "list", val |-> q]
PyDict(f) == [type |-> "dict", val |-> f]

(***************************************************************************)
(* Expression nodes.                                                       *)
(***************************************************************************)
Constant(v)       == [node |-> "Constant", value |-> v]
ConstStr(s)       == Constant(PyStr(s))
ConstBool(b)      == Constant(PyBool(b))
ConstInt(n)       == Constant(PyInt(n))
Name(id)          == [node |-> "Name", id |-> id]
List(elts)        == [node |-> "List", elts |-> elts]
Dict(keys, values) == [node |-> "Dict", keys |-> keys, values |-> values]
FormattedValue(e) == [node |-> "FormattedValue", value |-> e]
JoinedStr(values) == [node |-> "JoinedStr", values |-> values]
Assign(target, value) == [target |-> target, value |-> value]

(***************************************************************************)
(* The right-hand sides of the file, one definition per assignment, named  *)
(* after its target.                                                       *)
(***************************************************************************)
project == ConstStr("Fortran OOP Seminar Series")

author == ConstStr("Sebastian Ehlert")

copyright == JoinedStr(<<ConstStr("2022 "), FormattedValue(Name("author"))>>)

extensions_swapped ==
    List(<<ConstStr("myst_parser"),
           ConstStr("sphinx_copybutton"),
           ConstStr("sphinx_design"),
           ConstStr("sphinx.ext.intersphinx"),
           ConstStr("sphinx_comments")>>)

extensions ==
    List(<<ConstStr("myst_parser"),
           ConstStr("sphinx_design"),
           ConstStr("sphinx_copybutton"),
           ConstStr("sphinx.ext.intersphinx"),
           ConstStr("sphinx_comments")>>)

myst_enable_extensions_repeated ==
    List(<<ConstStr("colon_fence"),
           ConstStr("deflist"),
           ConstStr("substitution"),
           ConstStr("deflist")>>)

myst_enable_extensions ==
    List(<<ConstStr("colon_fence"),
           ConstStr("deflist"),
           ConstStr("substitution"),
           ConstStr("html_image")>>)

html_theme == ConstStr("sphinx_book_theme")

html_title == ConstStr("Fortran OOP Seminar Series")

html_logo_outside_static == ConstStr("foopss-logo.svg")

html_logo == ConstStr("_static/foopss-logo.svg")

html_favicon == ConstStr("_static/fortran-logo.svg")

_extra_navbar ==
    ConstStr("\n<div class=\"sd-fs-4\">\n<!--\n<a href=\"https://fortran-lang.discourse.group/\" target=\"_blank\">\n    <i class=\"fab fa-discourse\"></i>\n</a>\n<a href=\"https://twitter.com/fortranlang\" target=\"_blank\">\n    <i class=\"fab fa-twitter\"></i>\n</a>\n<a href=\"https://github.com/fortran-lang\" target=\"_blank\">\n    <i class=\"fab fa-github\"></i>\n</a>\n-->\n</div>\n")

html_theme_options_single_page ==
    Dict(<<ConstStr("repository_url"),
           ConstStr("repository_branch"),
           ConstStr("use_repository_button"),
           ConstStr("use_edit_page_button"),
           ConstStr("use_download_button"),
           ConstStr("path_to_docs"),
           ConstStr("show_navbar_depth"),
           ConstStr("logo_only"),
           ConstStr("extra_navbar"),
           ConstStr("single_page")>>,
         <<ConstStr("https://github.com/awvwgk/foopss"),
           ConstStr("main"),
           ConstBool(TRUE),
           ConstBool(TRUE),
           ConstBool(FALSE),
           ConstStr("pages"),
           ConstInt(3),
           ConstBool(TRUE),
           Name("_extra_navbar"),
           ConstBool(TRUE)>>)

html_theme_options ==
    Dict(<<ConstStr("repository_url"),
           ConstStr("repository_branch"),
           ConstStr("use_repository_button"),
           ConstStr("use_edit_page_button"),
           ConstStr("use_download_button"),
           ConstStr("path_to_docs"),
           ConstStr("show_navbar_depth"),
           ConstStr("logo_only"),
           ConstStr("extra_navbar")>>,
         <<ConstStr("https://github.com/awvwgk/foopss"),
           ConstStr("main"),
           ConstBool(TRUE),
           ConstBool(TRUE),
           ConstBool(FALSE),
           ConstStr("pages"),
           ConstInt(3),
           ConstBool(TRUE),
           Name("_extra_navbar")>>)

html_sidebars_reordered ==
    Dict(<<ConstStr("**")>>,
         <<List(<<ConstStr("search-field.html"),
                  ConstStr("sidebar-logo.html")>>)>>)

html_sidebars ==
    Dict(<<ConstStr("**")>>,
         <<List(<<ConstStr("sidebar-logo.html"),
                  ConstStr("search-field.html")>>)>>)

html_css_files == List(<<ConstStr("css/custom.css")>>)

html_static_path == List(<<ConstStr("_static")>>)

templates_path == List(<<ConstStr("_templates")>>)

master_doc == ConstStr("index")

comments_config == Dict(<< >>, << >>)

(***************************************************************************)
(* The module body: the assignments in the order of the file.              *)
(***************************************************************************)
\* html_favicon misspelled
conf_misspelled_key ==
    <<Assign("project", project),
      Assign("author", author),
      Assign("copyright", copyright),
      Assign("extensions", extensions),
      Assign("myst_enable_extensions", myst_enable_extensions),
      Assign("html_theme", html_theme),
      Assign("html_title", html_title),
      Assign("html_logo", html_logo),
      Assign("html_favico", html_favicon),
      Assign("_extra_navbar", _extra_navbar),
      Assign("html_theme_options", html_theme_options),
      Assign("html_sidebars", html_sidebars),
      Assign("html_css_files", html_css_files),
      Assign("html_static_path", html_static_path),
      Assign("templates_path", templates_path),
      Assign("master_doc", master_doc),
      Assign("comments_config", comments_config)>>

\* copyright assigned a second time at the end of the file
conf_copyright_reassigned ==
    <<Assign("project", project),
      Assign("author", author),
      Assign("copyright", copyright),
      Assign("extensions", extensions),
      Assign("myst_enable_extensions", myst_enable_extensions),
      Assign("html_theme", html_theme),
      Assign("html_title", html_title),
      Assign("html_logo", html_logo),
      Assign("html_favicon", html_favicon),
      Assign("_extra_navbar", _extra_navbar),
      Assign("html_theme_options", html_theme_options),
      Assign("html_sidebars", html_sidebars),
      Assign("html_css_files", html_css_files),
      Assign("html_static_path", html_static_path),
      Assign("templates_path", templates_path),
      Assign("master_doc", master_doc),
      Assign("comments_config", comments_config),
      Assign("copyright", ConstStr("2023 Sebastian Ehlert"))>>

\* lines 2 and 3 exchanged
conf_copyright_first ==
    <<Assign("project", project),
      Assign("copyright", copyright),
      Assign("author", author),
      Assign("extensions", extensions),
      Assign("myst_enable_extensions", myst_enable_extensions),
      Assign("html_theme", html_theme),
      Assign("html_title", html_title),
      Assign("html_logo", html_logo),
      Assign("html_favicon", html_favicon),
      Assign("_extra_navbar", _extra_navbar),
      Assign("html_theme_options", html_theme_options),
      Assign("html_sidebars", html_sidebars),
      Assign("html_css_files", html_css_files),
      Assign("html_static_path", html_static_path),
      Assign("templates_path", templates_path),
      Assign("master_doc", master_doc),
      Assign("comments_config", comments_config)>>

conf ==
    <<Assign("project", project),
      Assign("author", author),
      Assign("copyright", copyright),
      Assign("extensions", extensions),
      Assign("myst_enable_extensions", myst_enable_extensions),
      Assign("html_theme", html_theme),
      Assign("html_title", html_title),
      Assign("html_logo", html_logo),
      Assign("html_favicon", html_favicon),
      Assign("_extra_navbar", _extra_navbar),
      Assign("html_theme_options", html_theme_options),
      Assign("html_sidebars", html_sidebars),
      Assign("html_css_files", html_css_files),
      Assign("html_static_path", html_static_path),
      Assign("templates_path", templates_path),
      Assign("master_doc", master_doc),
      Assign("comments_config", comments_config)>>

\* The path of the file in the repository.
conf_file == "pages/conf.py"

(***************************************************************************)
(* Evaluation of an expression in a namespace.                             *)
(***************************************************************************)
\* The names an expression reads.
RECURSIVE Loads(_)
Loads(e) ==
    CASE e.node = "Constant" -> {}
      [] e.node = "Name" -> {e.id}
      [] e.node = "List" -> UNION {Loads(e.elts[i]) : i \in DOMAIN e.elts}
      [] e.node = "Dict" ->
            UNION ({Loads(e.keys[i]) : i \in DOMAIN e.keys}
                   \cup {Loads(e.values[i]) : i \in DOMAIN e.values})
      [] e.node = "JoinedStr" ->
            UNION {Loads(e.values[i]) : i \in DOMAIN e.values}
      [] e.node = "FormattedValue" -> Loads(e.value)

\* format(v, ""): the text a replacement field {v} contributes.
Format(v) ==
    CASE v.type = "str" -> v.val
      [] v.type = "bool" -> IF v.val THEN "True" ELSE "False"
      [] v.type = "int" -> ToString(v.val)

\* "".join(parts)
RECURSIVE Join(_)
Join(parts) ==
    IF parts = << >> THEN "" ELSE Head(parts).val \o Join(Tail(parts))

\* The mapping a dict display builds: a key given twice keeps its last value.
BuildMap(ks, vs) ==
    [k \in {ks[i].val : i \in DOMAIN ks} |->
        LET last == CHOOSE i \in DOMAIN ks :
                        /\ ks[i].val = k
                        /\ \A j \in DOMAIN ks : ks[j].val = k => j <= i
        IN  vs[last]]

RECURSIVE Eval(_, _)
Eval(e, names) ==
    CASE e.node = "Constant" -> e.value
      [] e.node = "Name" -> names[e.id]
      [] e.node = "List" ->
            PyList([i \in DOMAIN e.elts |-> Eval(e.elts[i], names)])
      [] e.node = "Dict" ->
            PyDict(BuildMap([i \in DOMAIN e.keys |-> Eval(e.keys[i], names)],
                            [i \in DOMAIN e.values |-> Eval(e.values[i], names)]))
      [] e.node = "JoinedStr" ->
            PyStr(Join([i \in DOMAIN e.values |-> Eval(e.values[i], names)]))
      [] e.node = "FormattedValue" -> PyStr(Format(Eval(e.value, names)))

(***************************************************************************)
(* The run.  The host supplies the namespace; it may already bind names,   *)
(* among them names the file itself uses.                                  *)
(***************************************************************************)
HostNames == {"__file__", "tags", "author", "_extra_navbar", "html_title"}

HostValue(name) ==
    IF name = "__file__" THEN PyStr(conf_file) ELSE PyStr("<host>")

Init ==
    /\ \E bound \in SUBSET HostNames :
          /\ Cardinality(bound) <= MaxHostNames
          /\ host = [name \in bound |-> HostValue(name)]
    /\ ns = host
    /\ pc = 1
    /\ exc = ""
    /\ stores = << >>

\* One assignment statement: evaluate the value, then store it under the
\* target.  Reading a name the namespace does not bind raises NameError and
\* ends the run.
Exec(stmt) ==
    IF Loads(stmt.value) \subseteq DOMAIN ns
    THEN /\ ns' = (stmt.target :> Eval(stmt.value, ns)) @@ ns
         /\ stores' = Append(stores, stmt.target)
         /\ pc' = pc + 1
         /\ UNCHANGED <<host, exc>>
    ELSE /\ exc' = "NameError"
         /\ UNCHANGED <<host, ns, pc, stores>>

Running == exc = "" /\ pc \in DOMAIN conf

Done == exc = "" /\ pc = Len(conf) + 1

\* target = "literal"
AssignConstant ==
    /\ Running
    /\ conf[pc].value.node = "Constant"
    /\ Exec(conf[pc])

\* target = [ ... ]
AssignList ==
    /\ Running
    /\ conf[pc].value.node = "List"
    /\ Exec(conf[pc])

\* target = { ... }
AssignDict ==
    /\ Running
    /\ conf[pc].value.node = "Dict"
    /\ Exec(conf[pc])

\* target = f"..."
AssignJoinedStr ==
    /\ Running
    /\ conf[pc].value.node = "JoinedStr"
    /\ Exec(conf[pc])

Next == AssignConstant \/ AssignList \/ AssignDict \/ AssignJoinedStr

Spec == Init /\ [][Next]_vars

\* The interpreter executes the next statement whenever there is one.
FairSpec == Spec /\ WF_vars(Next)

(***************************************************************************)
(* Properties.                                                             *)
(***************************************************************************)
\* The names the file has bound so far.
Bound == {stores[i] : i \in DOMAIN stores}

\* How often the file has stored to a name so far.
Count(name) == Cardinality({i \in DOMAIN stores : stores[i] = name})

\* The bindings the file made, as they stand in the namespace.
FileBindings == [name \in Bound |-> ns[name]]

StartsWith(s, prefix) ==
    Len(s) >= Len(prefix) /\ SubSeq(s, 1, Len(prefix)) = prefix

\* The directory part of a path with at least one "/".
Dirname(path) ==
    LET slash == CHOOSE i \in 1..Len(path) :
                    /\ SubSeq(path, i, i) = "/"
                    /\ \A j \in (i + 1)..Len(path) : SubSeq(path, j, j) # "/"
    IN  SubSeq(path, 1, slash - 1)

\* The keys of the option table.
RecognizedKeys ==
    {"project", "author", "copyright", "extensions", "myst_enable_extensions",
     "html_theme", "html_title", "html_logo", "html_favicon",
     "html_theme_options", "html_sidebars", "html_css_files",
     "html_static_path", "templates_path", "master_doc", "comments_config"}

\* The namespace python builds from the file, written out.
FinalNamespace ==
    ("project" :> PyStr("Fortran OOP Seminar Series")) @@
    ("author" :> PyStr("Sebastian Ehlert")) @@
    ("copyright" :> PyStr("2022 Sebastian Ehlert")) @@
    ("extensions" :> PyList(<<PyStr("myst_parser"),
                              PyStr("sphinx_design"),
                              PyStr("sphinx_copybutton"),
                              PyStr("sphinx.ext.intersphinx"),
                              PyStr("sphinx_comments")>>)) @@
    ("myst_enable_extensions" :> PyList(<<PyStr("colon_fence"),
                                          PyStr("deflist"),
                                          PyStr("substitution"),
                                          PyStr("html_image")>>)) @@
    ("html_theme" :> PyStr("sphinx_book_theme")) @@
    ("html_title" :> PyStr("Fortran OOP Seminar Series")) @@
    ("html_logo" :> PyStr("_static/foopss-logo.svg")) @@
    ("html_favicon" :> PyStr("_static/fortran-logo.svg")) @@
    ("_extra_navbar" :> PyStr("\n<div class=\"sd-fs-4\">\n<!--\n<a href=\"https://fortran-lang.discourse.group/\" target=\"_blank\">\n    <i class=\"fab fa-discourse\"></i>\n</a>\n<a href=\"https://twitter.com/fortranlang\" target=\"_blank\">\n    <i class=\"fab fa-twitter\"></i>\n</a>\n<a href=\"https://github.com/fortran-lang\" target=\"_blank\">\n    <i class=\"fab fa-github\"></i>\n</a>\n-->\n</div>\n")) @@
    ("html_theme_options" :> PyDict(("repository_url" :> PyStr("https://github.com/awvwgk/foopss")) @@
                                    ("repository_branch" :> PyStr("main")) @@
                                    ("use_repository_button" :> PyBool(TRUE)) @@
                                    ("use_edit_page_button" :> PyBool(TRUE)) @@
                                    ("use_download_button" :> PyBool(FALSE)) @@
                                    ("path_to_docs" :> PyStr("pages")) @@
                                    ("show_navbar_depth" :> PyInt(3)) @@
                                    ("logo_only" :> PyBool(TRUE)) @@
                                    ("extra_navbar" :> PyStr("\n<div class=\"sd-fs-4\">\n<!--\n<a href=\"https://fortran-lang.discourse.group/\" target=\"_blank\">\n    <i class=\"fab fa-discourse\"></i>\n</a>\n<a href=\"https://twitter.com/fortranlang\" target=\"_blank\">\n    <i class=\"fab fa-twitter\"></i>\n</a>\n<a href=\"https://github.com/fortran-lang\" target=\"_blank\">\n    <i class=\"fab fa-github\"></i>\n</a>\n-->\n</div>\n")))) @@
    ("html_sidebars" :> PyDict(("**" :> PyList(<<PyStr("sidebar-logo.html"),
                                               PyStr("search-field.html")>>)))) @@
    ("html_css_files" :> PyList(<<PyStr("css/custom.css")>>)) @@
    ("html_static_path" :> PyList(<<PyStr("_static")>>)) @@
    ("templates_path" :> PyList(<<PyStr("_templates")>>)) @@
    ("master_doc" :> PyStr("index")) @@
    ("comments_config" :> PyDict(<< >>))

\* C1, as stated: every name the file binds is one of the recognized
\* configuration keys.
C1_OnlyRecognizedKeys == Bound \subseteq RecognizedKeys

\* C1, amended: every name the file binds is a recognized configuration key
\* or the helper name _extra_navbar.
C1_RecognizedKeysOrHelper ==
    Bound \subseteq (RecognizedKeys \cup {"_extra_navbar"})

C1_Witness == Done /\ "_extra_navbar" \in Bound /\ RecognizedKeys \subseteq Bound

Metadata == {"project", "author", "copyright"}

\* C2: project, author and copyright are each stored exactly once by the
\* file, and after that store no step changes their value.
C2_MetadataSetOnce ==
    /\ [](\A k \in Metadata : Count(k) <= 1 /\ (Done => Count(k) = 1))
    /\ [][\A k \in Metadata :
            k \in Bound => (k \in DOMAIN ns' /\ ns'[k] = ns[k])]_vars

C2_Witness ==
    /\ Done
    /\ \A k \in Metadata : Count(k) = 1 /\ ns[k] = FinalNamespace[k]
    /\ "author" \in DOMAIN host

\* C3: after the run, extensions is the list of the five distinct plugin
\* names myst_parser, sphinx_design, sphinx_copybutton,
\* sphinx.ext.intersphinx, sphinx_comments, in this order.
C3_Extensions ==
    Done =>
        /\ ns["extensions"] =
              PyList(<<PyStr("myst_parser"), PyStr("sphinx_design"),
                       PyStr("sphinx_copybutton"),
                       PyStr("sphinx.ext.intersphinx"),
                       PyStr("sphinx_comments")>>)
        /\ \A i, j \in DOMAIN ns["extensions"].val :
              ns["extensions"].val[i] = ns["extensions"].val[j] => i = j

C3_Witness == Done /\ Len(ns["extensions"].val) = 5

\* C4: after the run, myst_enable_extensions holds exactly colon_fence,
\* deflist, substitution and html_image, each once.
C4_MystFeatures ==
    Done =>
        /\ ns["myst_enable_extensions"].type = "list"
        /\ {ns["myst_enable_extensions"].val[i] :
                i \in DOMAIN ns["myst_enable_extensions"].val}
              = {PyStr("colon_fence"), PyStr("deflist"),
                 PyStr("substitution"), PyStr("html_image")}
        /\ Len(ns["myst_enable_extensions"].val) = 4

C4_Witness == Done /\ ns["myst_enable_extensions"].val[4] = PyStr("html_image")

\* The theme options the option table names.
NamedThemeOptions ==
    {"repository_url", "repository_branch", "use_repository_button",
     "path_to_docs", "show_navbar_depth", "use_edit_page_button",
     "use_download_button", "extra_navbar"}

ThemeOptionValues(opts) ==
    /\ \A k \in DOMAIN opts : opts[k].type \in {"str", "bool", "int"}
    /\ opts["show_navbar_depth"] = PyInt(3)
    /\ opts["use_edit_page_button"] = PyBool(TRUE)
    /\ opts["use_download_button"] = PyBool(FALSE)

\* C5, as stated: every value of html_theme_options is a string, a boolean
\* or an integer, and its keys are exactly the repository, navigation depth,
\* edit/download button and extra navbar options.
C5_OnlyNamedThemeOptions ==
    Done =>
        /\ ns["html_theme_options"].type = "dict"
        /\ DOMAIN ns["html_theme_options"].val = NamedThemeOptions
        /\ ThemeOptionValues(ns["html_theme_options"].val)

\* C5, amended: every value of html_theme_options is a string, a boolean or
\* an integer, and its keys are exactly the repository, navigation depth,
\* edit/download button and extra navbar options and logo_only, which is
\* true.
C5_NamedThemeOptionsAndLogoOnly ==
    Done =>
        /\ ns["html_theme_options"].type = "dict"
        /\ DOMAIN ns["html_theme_options"].val
              = NamedThemeOptions \cup {"logo_only"}
        /\ ThemeOptionValues(ns["html_theme_options"].val)
        /\ ns["html_theme_options"].val["logo_only"] = PyBool(TRUE)

C5_Witness == Done /\ "logo_only" \in DOMAIN ns["html_theme_options"].val

\* C6: after the run, comments_config is a mapping without keys, and
\* html_sidebars maps the one pattern "**" to the list sidebar-logo.html,
\* search-field.html.
C6_CommentsAndSidebars ==
    Done =>
        /\ ns["comments_config"].type = "dict"
        /\ DOMAIN ns["comments_config"].val = {}
        /\ ns["html_sidebars"].type = "dict"
        /\ DOMAIN ns["html_sidebars"].val = {"**"}
        /\ ns["html_sidebars"].val["**"]
              = PyList(<<PyStr("sidebar-logo.html"), PyStr("search-field.html")>>)

C6_Witness == Done /\ "**" \in DOMAIN ns["html_sidebars"].val

\* C7: every run ends after the last statement without an exception, and
\* then the bindings the file made are the same whatever the host had bound.
C7_TerminatesWithSameNamespace ==
    <>[](Done /\ FileBindings = FinalNamespace /\ ns = FinalNamespace @@ host)

C7_Witness ==
    /\ Done
    /\ FileBindings = FinalNamespace
    /\ "html_title" \in DOMAIN host
    /\ "tags" \in DOMAIN host

\* C8: no statement reads a name the file has not bound before it, so no
\* NameError is raised; after the run copyright is "2022 " followed by
\* author, and html_theme_options["extra_navbar"] is _extra_navbar.
C8_ReadsFollowStores ==
    /\ exc = ""
    /\ Running => Loads(conf[pc].value) \subseteq Bound
    /\ Done =>
        /\ ns["copyright"] = PyStr("2022 " \o ns["author"].val)
        /\ ns["copyright"] = PyStr("2022 Sebastian Ehlert")
        /\ ns["html_theme_options"].val["extra_navbar"] = ns["_extra_navbar"]

C8_Witness ==
    /\ Done
    /\ DOMAIN host = {"author", "_extra_navbar"}
    /\ ns["copyright"].val = "2022 Sebastian Ehlert"
    /\ ns["html_theme_options"].val["extra_navbar"] # host["_extra_navbar"]

\* C9: after the run, html_logo and html_favicon lie in a directory of
\* html_static_path and start with "_static/", html_title is project, and
\* path_to_docs is the directory of conf.py.
C9_PathsConsistent ==
    Done =>
        /\ \A k \in {"html_logo", "html_favicon"} :
              /\ \E i \in DOMAIN ns["html_static_path"].val :
                    StartsWith(ns[k].val, ns["html_static_path"].val[i].val \o "/")
              /\ StartsWith(ns[k].val, "_static/")
        /\ ns["html_title"] = ns["project"]
        /\ ns["html_theme_options"].val["path_to_docs"] = PyStr(Dirname(conf_file))

C9_Witness ==
    /\ Done
    /\ ns["html_static_path"] = PyList(<<PyStr("_static")>>)
    /\ ns["html_theme_options"].val["path_to_docs"].val = "pages"

====
